---- MODULE Spec2Model ----
(***************************************************************************)
(* A model of the chat relay of src/backend/server.js: one master process  *)
(* (the Coordinator) that owns reservedNicknames, and nOfCPUs worker       *)
(* processes (the shards), each with its own pendingNicknameRequests,      *)
(* socketNicknames and channelSubscriptions.  Workers and master exchange  *)
(* messages over FIFO IPC channels; every handler of the source is one     *)
(* action.                                                                 *)
(***************************************************************************)
EXTENDS Integers, Sequences, FiniteSets, TLC

\* ------------------------------------------------------------------ sizes
\* Number of worker processes (nOfCPUs, the host's core count).
nOfCPUs == 2
\* Number of client sockets the workers have accepted.
NConns == 3
\* Number of client records the sockets may deliver in one run, per specification.
MaxInputs == 3
MaxNickInputs == 3
MaxGrantInputs == 2
MaxPrivInputs == 3
MaxChanInputs == 3
MaxJoinInputs == 2
MaxOrderInputs == 4
\* The small specifications: the sockets in use, and how many of them may be
\* destroyed.
NPrivConns == 2
MaxPrivCloses == 1
\* SpecJoin: how many sockets may be destroyed.
MaxJoinCloses == 2
\* Size of the channel catalog (the source seeds CH1..CH10).
NChannels == 2

\* Operation codes
REQUEST_NICKNAME == 1
PRIVATE_MESSAGE == 2
REQUEST_JOIN_CHANNEL == 3
CHANNEL_MESSAGE == 4
RELEASE_NICKNAME == 11

Shards == 1..nOfCPUs
Conns == 1..NConns
\* The accept-balancing primitive of the host: socket c is served by one worker.
shardOf(c) == ((c - 1) % nOfCPUs) + 1

Names == {"a", "b"}
Bodies == {"hi"}
Catalog == {"CH" \o ToString(x) : x \in 1..NChannels}
BadChannel == "CH0"

\* A field a JSON record does not carry (undefined); "" is the empty string.
Undef == "undefined"
\* success is Undef in requests, "true" or "false" in replies.
Record(cmd, msg, to, channel, from, nickname, success) ==
    [cmd |-> cmd, msg |-> msg, to |-> to, channel |-> channel, from |-> from,
     nickname |-> nickname, success |-> success]

VARIABLES
    conn,                     \* socket state: "open", "destroyed" (destroyed = true,
                              \* 'close' not yet handled), "closed" ('close' handled)
    worker,                   \* worker process: "up", "crashed", "exited"
    reservedNicknames,        \* master: sequence of [owner, name]
    pendingNicknameRequests,  \* per worker: sequence of [socket, nickname]
    socketNicknames,          \* per worker: sequence of [socket, nickname]
    channelSubscriptions,     \* per worker: channel name -> sequence of sockets
    toMaster,                 \* per worker: IPC messages worker -> master, FIFO
    toWorker,                 \* per worker: IPC messages master -> worker, FIFO
    written,                  \* per socket: the records socket.write was called with
    nInputs                   \* client records received so far

vars == <<conn, worker, reservedNicknames, pendingNicknameRequests, socketNicknames,
          channelSubscriptions, toMaster, toWorker, written, nInputs>>

\* ------------------------------------------------------- JavaScript arrays
\* arr.indexOf(arr.find(P)), given the set hits of the (1-based) positions of arr
\* whose element satisfies P: the 0-based index of the first of them, and -1 when
\* there is none (find returns undefined).
FindIndex(hits) ==
    IF hits = {}
    THEN -1
    ELSE (CHOOSE i \in hits : \A j \in hits : i <= j) - 1

\* arr.splice(start) with its single argument: removes every element from start to
\* the end; a negative start counts from the end (-1 is the last element).
Splice(arr, start) ==
    LET from == IF start < 0
                THEN (IF Len(arr) + start < 0 THEN 0 ELSE Len(arr) + start)
                ELSE (IF start > Len(arr) THEN Len(arr) ELSE start)
    IN  SubSeq(arr, 1, from)

\* k copies of record r, as a sequence.
Copies(k, r) == [i \in 1..k |-> r]

\* !x || x.length < 1
Empty(x) == x = Undef \/ x = ""

\* socket.destroyed
Destroyed(c) == conn[c] \in {"destroyed", "closed"}

\* ------------------------------------------------------ utility functions
validateNicknameRequest(obj) ==
    obj.cmd = REQUEST_NICKNAME /\ ~Empty(obj.msg)

validatePrivateMessage(obj) ==
    obj.cmd = PRIVATE_MESSAGE /\ ~Empty(obj.msg) /\ ~Empty(obj.to)

\* Variant of validateJoinChannelRequest without the loop over the subscribers.
validateJoinChannelRequest_noLoop(obj, socket, subs) ==
    /\ obj.cmd = REQUEST_JOIN_CHANNEL
    /\ ~Empty(obj.msg)
    /\ obj.msg \in DOMAIN subs

\* Variant of validateJoinChannelRequest that does not look the name up in the map.
validateJoinChannelRequest_anyName(obj, socket, subs) ==
    /\ obj.cmd = REQUEST_JOIN_CHANNEL
    /\ ~Empty(obj.msg)
    /\ obj.msg \in DOMAIN subs =>
           \A i \in 1..Len(subs[obj.msg]) : subs[obj.msg][i] # socket

\* subs is the worker's channelSubscriptions map; subs.get(name) is undefined for a
\* name outside the catalog.
validateJoinChannelRequest(obj, socket, subs) ==
    /\ obj.cmd = REQUEST_JOIN_CHANNEL
    /\ ~Empty(obj.msg)
    /\ obj.msg \in DOMAIN subs
    /\ \A i \in 1..Len(subs[obj.msg]) : subs[obj.msg][i] # socket

validateChannelMessage(obj) ==
    obj.cmd = CHANNEL_MESSAGE /\ ~Empty(obj.msg) /\ ~Empty(obj.channel)

\* socketNicknames.find((e) => e.socket === socket): 0-based index, -1 for undefined
\* (reading .nickname of undefined throws a TypeError).
senderIndex(registry, socket) ==
    FindIndex({i \in 1..Len(registry) : registry[i].socket = socket})

\* Variant of appendSenderNicknameToObj that keeps a from the record already has
\* (obj.from = obj.from || senderNickname).
appendSenderNicknameToObj_keep(obj, socket, registry) ==
    IF obj.from # Undef
    THEN obj
    ELSE [obj EXCEPT !.from = registry[senderIndex(registry, socket) + 1].nickname]

appendSenderNicknameToObj(obj, socket, registry) ==
    [obj EXCEPT !.from = registry[senderIndex(registry, socket) + 1].nickname]

\* e.nickname of an entry of reservedNicknames: the entries are created as
\* { owner, name } and have no such key.
reservationNickname(e) == Undef

\* Variant of checkNicknameAlreadyInUse that reads the key nickname instead of name.
checkNicknameAlreadyInUse_wrongKey(nickname, reserved) ==
    \E i \in 1..Len(reserved) : reservationNickname(reserved[i]) = nickname

checkNicknameAlreadyInUse(nickname, reserved) ==
    \E i \in 1..Len(reserved) : reserved[i].name = nickname

\* ------------------------------------------------------------------ Init
Init ==
    /\ conn = [c \in Conns |-> "open"]
    /\ worker = [s \in Shards |-> "up"]
    /\ reservedNicknames = <<>>
    /\ pendingNicknameRequests = [s \in Shards |-> <<>>]
    /\ socketNicknames = [s \in Shards |-> <<>>]
    /\ channelSubscriptions = [s \in Shards |-> [ch \in Catalog |-> <<>>]]
    /\ toMaster = [s \in Shards |-> <<>>]
    /\ toWorker = [s \in Shards |-> <<>>]
    /\ written = [c \in Conns |-> <<>>]
    /\ nInputs = 0

\* ------------------------------------------------------- client records
\* JSON.parse(data.toString()) throws on the bytes Garbage.
Garbage == Record(0, "{not json", Undef, Undef, Undef, Undef, Undef)
Parses(data) == data # Garbage

NickReq(n) == Record(REQUEST_NICKNAME, n, Undef, Undef, Undef, Undef, Undef)
JoinReq(ch) == Record(REQUEST_JOIN_CHANNEL, ch, Undef, Undef, Undef, Undef, Undef)
PrivMsg(b, to) == Record(PRIVATE_MESSAGE, b, to, Undef, Undef, Undef, Undef)
ChanMsg(b, ch) == Record(CHANNEL_MESSAGE, b, Undef, ch, Undef, Undef, Undef)

Inputs ==
    {NickReq(n) : n \in Names}
    \cup {JoinReq(ch) : ch \in Catalog \cup {BadChannel}}
    \cup {PrivMsg(b, n) : b \in Bodies, n \in Names}
    \cup {ChanMsg(b, ch) : b \in Bodies, ch \in Catalog \cup {BadChannel}}

\* JSON.stringify({ ...obj, success: v })
WithSuccess(obj, v) == [obj EXCEPT !.success = v]

\* Variant of Send that puts the message in front of those not yet handled.
Send_front(queue, s, obj) == [queue EXCEPT ![s] = <<obj>> \o @]

\* process.send(obj) in a worker, worker.send(obj) in the master
Send(queue, s, obj) == [queue EXCEPT ![s] = Append(@, obj)]

\* ------------------------------------------------- worker: socket handlers
\* socket "data" event: onSocketReceiveData(data, socket).  An exception thrown
\* inside the try block is swallowed by the empty catch.
onSocketReceiveData(c, data) ==
    LET s == shardOf(c)
        registry == socketNicknames[s]
        subs == channelSubscriptions[s]
    IN
    /\ worker[s] = "up"
    /\ conn[c] = "open"
    /\ nInputs' = nInputs + 1
    /\ UNCHANGED <<conn, worker, reservedNicknames, socketNicknames, toWorker>>
    /\ IF ~Parses(data)
       THEN UNCHANGED <<pendingNicknameRequests, channelSubscriptions, toMaster, written>>
       ELSE IF validateNicknameRequest(data)
       THEN /\ pendingNicknameRequests' =
                   [pendingNicknameRequests EXCEPT
                       ![s] = Append(@, [socket |-> c, nickname |-> data.msg])]
            /\ toMaster' = Send(toMaster, s, data)
            /\ UNCHANGED <<channelSubscriptions, written>>
       ELSE IF validateJoinChannelRequest(data, c, subs)
       THEN /\ channelSubscriptions' =
                   [channelSubscriptions EXCEPT ![s][data.msg] = Append(@, c)]
            /\ written' = [written EXCEPT ![c] = Append(@, WithSuccess(data, "true"))]
            /\ UNCHANGED <<pendingNicknameRequests, toMaster>>
       ELSE IF validatePrivateMessage(data) \/ validateChannelMessage(data)
       THEN IF senderIndex(registry, c) = -1
            THEN \* TypeError in appendSenderNicknameToObj, caught and dropped
                 UNCHANGED <<pendingNicknameRequests, channelSubscriptions,
                             toMaster, written>>
            ELSE /\ toMaster' =
                        Send(toMaster, s, appendSenderNicknameToObj(data, c, registry))
                 /\ UNCHANGED <<pendingNicknameRequests, channelSubscriptions, written>>
       ELSE /\ written' = [written EXCEPT ![c] = Append(@, WithSuccess(data, "false"))]
            /\ UNCHANGED <<pendingNicknameRequests, channelSubscriptions, toMaster>>

\* The peer disconnects or the transport fails: the socket becomes destroyed; its
\* "close" event is handled later.
SocketDestroyed(c) ==
    /\ worker[shardOf(c)] = "up"
    /\ conn[c] = "open"
    /\ conn' = [conn EXCEPT ![c] = "destroyed"]
    /\ UNCHANGED <<worker, reservedNicknames, pendingNicknameRequests, socketNicknames,
                   channelSubscriptions, toMaster, toWorker, written, nInputs>>

\* Variant of removeClosedSubscriber that removes one element only (splice(i, 1)).
removeClosedSubscriber_one(subs) ==
    LET i == FindIndex({j \in 1..Len(subs) : Destroyed(subs[j])})
        at == IF i < 0 THEN Len(subs) ELSE i + 1
    IN  [k \in 1..(Len(subs) - (IF subs = <<>> THEN 0 ELSE 1)) |->
            IF k < at THEN subs[k] ELSE subs[k + 1]]

\* subs.splice(subs.indexOf(subs.find((elem) => elem.destroyed === true)))
removeClosedSubscriber(subs) ==
    Splice(subs, FindIndex({i \in 1..Len(subs) : Destroyed(subs[i])}))

\* socketNicknames.find((elem) => elem.socket.destroyed === true), as an index
closedPairIndex(registry) ==
    FindIndex({i \in 1..Len(registry) : Destroyed(registry[i].socket)})

\* socket "close" event of socket c: onSocketClosed(erroneus).  The handler is not
\* given the socket; it searches the registries for a destroyed one.
onSocketClosed(c) ==
    LET s == shardOf(c)
        registry == socketNicknames[s]
        idx == closedPairIndex(registry)
    IN
    /\ worker[s] = "up"
    /\ conn[c] = "destroyed"
    /\ conn' = [conn EXCEPT ![c] = "closed"]
    /\ IF idx # -1
       THEN /\ toMaster' = Send(toMaster, s,
                   Record(RELEASE_NICKNAME, registry[idx + 1].nickname,
                          Undef, Undef, Undef, Undef, Undef))
            /\ socketNicknames' = [socketNicknames EXCEPT ![s] = Splice(@, idx)]
       ELSE UNCHANGED <<toMaster, socketNicknames>>
    /\ channelSubscriptions' =
           [channelSubscriptions EXCEPT
               ![s] = [ch \in DOMAIN @ |-> removeClosedSubscriber(@[ch])]]
    /\ UNCHANGED <<worker, reservedNicknames, pendingNicknameRequests, toWorker,
                   written, nInputs>>

\* ------------------------------------------------ worker: master messages
\* An uncaught exception in a handler ends the worker process: its sockets are
\* destroyed with it and its memory is gone.
WorkerDies(s) ==
    /\ worker' = [worker EXCEPT ![s] = "crashed"]
    /\ conn' = [c \in Conns |-> IF shardOf(c) = s /\ conn[c] = "open"
                                THEN "destroyed" ELSE conn[c]]
    /\ pendingNicknameRequests' = [pendingNicknameRequests EXCEPT ![s] = <<>>]
    /\ socketNicknames' = [socketNicknames EXCEPT ![s] = <<>>]
    /\ channelSubscriptions' =
           [channelSubscriptions EXCEPT ![s] = [ch \in Catalog |-> <<>>]]
    /\ toWorker' = [toWorker EXCEPT ![s] = <<>>]

\* Variant of privateRecipients that matches the pairs against obj.from.
privateRecipients_bySender(registry, obj) ==
    [i \in {j \in 1..Len(registry) : registry[j].nickname = obj.from}
        |-> registry[i].socket]

\* The sockets a relayed PRIVATE_MESSAGE is written to: one write per pair of the
\* registry whose nickname is obj.to.
privateRecipients(registry, obj) ==
    [i \in {j \in 1..Len(registry) : registry[j].nickname = obj.to}
        |-> registry[i].socket]

\* The sockets a relayed CHANNEL_MESSAGE is written to: every entry of the list.
channelRecipients(subs, obj) ==
    [i \in 1..Len(subs[obj.channel]) |-> subs[obj.channel][i]]

\* written after one write of record r to every socket of the family targets
WriteAll(targets, r) ==
    [c \in Conns |->
        written[c] \o Copies(Cardinality({i \in DOMAIN targets : targets[i] = c}), r)]

\* process "message" event in worker s: onWorkerReceivedMsg(obj)
onWorkerReceivedMsg(s) ==
    /\ worker[s] = "up"
    /\ toWorker[s] # <<>>
    /\ LET obj == Head(toWorker[s])
           pending == pendingNicknameRequests[s]
           idx == FindIndex({i \in 1..Len(pending) : pending[i].nickname = obj.nickname})
       IN
       CASE obj.cmd = REQUEST_NICKNAME ->
              IF idx = -1
              THEN \* pendingRequest is undefined: TypeError, uncaught
                   /\ WorkerDies(s)
                   /\ UNCHANGED <<reservedNicknames, toMaster, written, nInputs>>
              ELSE /\ written' = [written EXCEPT ![pending[idx + 1].socket] = Append(@, obj)]
                   /\ socketNicknames' =
                          IF obj.success = "true"
                          THEN [socketNicknames EXCEPT ![s] = Append(@, pending[idx + 1])]
                          ELSE socketNicknames
                   /\ pendingNicknameRequests' =
                          [pendingNicknameRequests EXCEPT ![s] = Splice(@, idx)]
                   /\ toWorker' = [toWorker EXCEPT ![s] = Tail(@)]
                   /\ UNCHANGED <<conn, worker, reservedNicknames, channelSubscriptions,
                                  toMaster, nInputs>>
         [] obj.cmd = PRIVATE_MESSAGE ->
              /\ written' = WriteAll(privateRecipients(socketNicknames[s], obj),
                                     WithSuccess(obj, "true"))
              /\ toWorker' = [toWorker EXCEPT ![s] = Tail(@)]
              /\ UNCHANGED <<conn, worker, reservedNicknames, pendingNicknameRequests,
                             socketNicknames, channelSubscriptions, toMaster, nInputs>>
         [] obj.cmd = CHANNEL_MESSAGE ->
              IF obj.channel \notin DOMAIN channelSubscriptions[s]
              THEN \* channelSubscriptions.get() is undefined, not iterable: uncaught
                   /\ WorkerDies(s)
                   /\ UNCHANGED <<reservedNicknames, toMaster, written, nInputs>>
              ELSE /\ written' = WriteAll(channelRecipients(channelSubscriptions[s], obj),
                                          WithSuccess(obj, "true"))
                   /\ toWorker' = [toWorker EXCEPT ![s] = Tail(@)]
                   /\ UNCHANGED <<conn, worker, reservedNicknames, pendingNicknameRequests,
                                  socketNicknames, channelSubscriptions, toMaster, nInputs>>
         [] OTHER ->
              /\ toWorker' = [toWorker EXCEPT ![s] = Tail(@)]
              /\ UNCHANGED <<conn, worker, reservedNicknames, pendingNicknameRequests,
                             socketNicknames, channelSubscriptions, toMaster, written,
                             nInputs>>

\* ------------------------------------------------------------- the master
\* worker.send(obj): an IPC message to a worker that is gone is not delivered.
SendToWorker(queue, s, obj) ==
    IF worker[s] = "up" THEN Send(queue, s, obj) ELSE queue

\* Variant of broadcastToWorkers that sends to the first worker only.
broadcastToWorkers_first(queue, obj) ==
    [w \in Shards |-> IF w = 1 THEN SendToWorker(queue, w, obj)[w] ELSE queue[w]]

\* broadcastToWorkers(obj)
broadcastToWorkers(queue, obj) ==
    [w \in Shards |-> SendToWorker(queue, w, obj)[w]]

NicknameReply(obj, text, ok) ==
    Record(REQUEST_NICKNAME, text, Undef, Undef, Undef, obj.msg, ok)

\* case RELEASE_NICKNAME: reservedNicknames after
\* splice(indexOf(find((e) => e.nickname === obj.msg)))
releaseNickname(reserved, obj) ==
    Splice(reserved,
           FindIndex({i \in 1..Len(reserved) : reservationNickname(reserved[i]) = obj.msg}))

\* worker "message" event in the master: onMasterReceivedMsg(obj, worker, ...)
onMasterReceivedMsg(s) ==
    /\ toMaster[s] # <<>>
    /\ toMaster' = [toMaster EXCEPT ![s] = Tail(@)]
    /\ UNCHANGED <<conn, worker, pendingNicknameRequests, socketNicknames,
                   channelSubscriptions, written, nInputs>>
    /\ LET obj == Head(toMaster[s]) IN
       CASE obj.cmd = REQUEST_NICKNAME ->
              IF checkNicknameAlreadyInUse(obj.msg, reservedNicknames)
              THEN /\ toWorker' = SendToWorker(toWorker, s,
                          NicknameReply(obj, "Nickname is already in use.", "false"))
                   /\ UNCHANGED reservedNicknames
              ELSE /\ reservedNicknames' =
                          Append(reservedNicknames, [owner |-> s, name |-> obj.msg])
                   /\ toWorker' = SendToWorker(toWorker, s,
                          NicknameReply(obj, "Nickname is available.", "true"))
         [] obj.cmd \in {CHANNEL_MESSAGE, PRIVATE_MESSAGE} ->
              /\ toWorker' = broadcastToWorkers(toWorker, obj)
              /\ UNCHANGED reservedNicknames
         [] obj.cmd = RELEASE_NICKNAME ->
              /\ reservedNicknames' = releaseNickname(reservedNicknames, obj)
              /\ UNCHANGED toWorker
         [] OTHER -> UNCHANGED <<reservedNicknames, toWorker>>

\* Variant of spliceOwned that starts each removal one place late
\* (splice(indexOf(obj) + 1)).
spliceOwned_offByOne(reserved, owned) ==
    IF owned = <<>>
    THEN reserved
    ELSE Splice(reserved,
                FindIndex({i \in 1..Len(reserved) : reserved[i] = Head(owned)}) + 1)

\* reservedNicknames after the loop of onWorkerExit over the entries owned by the
\* worker: one splice(indexOf(obj)) per owned entry, in order.
RECURSIVE spliceOwned(_, _)
spliceOwned(reserved, owned) ==
    IF owned = <<>>
    THEN reserved
    ELSE spliceOwned(Splice(reserved,
                            FindIndex({i \in 1..Len(reserved) : reserved[i] = Head(owned)})),
                     Tail(owned))

\* worker "exit" event in the master: onWorkerExit(code, signal, worker)
onWorkerExit(s) ==
    /\ worker[s] = "crashed"
    /\ worker' = [worker EXCEPT ![s] = "exited"]
    /\ reservedNicknames' =
           spliceOwned(reservedNicknames,
                       SelectSeq(reservedNicknames, LAMBDA e : e.owner = s))
    /\ UNCHANGED <<conn, pendingNicknameRequests, socketNicknames, channelSubscriptions,
                   toMaster, toWorker, written, nInputs>>

\* ------------------------------------------------------------------ Next
\* One step of the system.  The sockets 1..n are in use: their clients send records
\* of the set inputs, at most max of them in a run, and at most closes sockets are
\* destroyed.
Step(inputs, max, n, closes) ==
    \/ \E c \in 1..n, data \in inputs : nInputs < max /\ onSocketReceiveData(c, data)
    \/ \E c \in 1..n :
           Cardinality({d \in Conns : conn[d] # "open"}) < closes /\ SocketDestroyed(c)
    \/ \E c \in Conns : onSocketClosed(c)
    \/ \E s \in Shards : onWorkerReceivedMsg(s)
    \/ \E s \in Shards : onMasterReceivedMsg(s)
    \/ \E s \in Shards : onWorkerExit(s)

Next == Step(Inputs, MaxInputs, NConns, NConns)

Spec == Init /\ [][Next]_vars

\* Clients that only request nicknames (and disconnect).
NickInputs == {NickReq(n) : n \in Names}
NextNick == Step(NickInputs, MaxNickInputs, NConns, NConns)
SpecNick == Init /\ [][NextNick]_vars

\* The same clients, sending fewer requests.
NextGrant == Step(NickInputs, MaxGrantInputs, NConns, NConns)
SpecGrant == Init /\ [][NextGrant]_vars

\* One client on each worker; they request nicknames and send private messages to
\* "b".
PrivInputs == NickInputs \cup {PrivMsg(b, "b") : b \in Bodies}
NextPriv == Step(PrivInputs, MaxPrivInputs, nOfCPUs, MaxPrivCloses)
SpecPriv == Init /\ [][NextPriv]_vars

\* Two clients, one on each worker, that only request nicknames.
NextExit == Step(NickInputs, MaxPrivInputs, NPrivConns, MaxPrivCloses)
SpecExit == Init /\ [][NextExit]_vars

\* A record whose cmd is none of the operation codes, and a PRIVATE_MESSAGE without
\* the field to.
UnknownCmd == Record(5, "hi", Undef, Undef, Undef, Undef, Undef)
NoAddressee == Record(PRIVATE_MESSAGE, "hi", Undef, Undef, Undef, Undef, Undef)

\* Two clients that request the nickname "a" and send input that is no valid request.
BadInputs == {NickReq("a"), Garbage, UnknownCmd, NoAddressee}
NextBad == Step(BadInputs, MaxPrivInputs, NPrivConns, MaxPrivCloses)
SpecBad == Init /\ [][NextBad]_vars

\* Two clients that request the nickname "a" and send private and channel messages.
RelayInputs ==
    {NickReq("a")}
    \cup {PrivMsg(b, "a") : b \in Bodies}
    \cup {ChanMsg(b, "CH1") : b \in Bodies}
NextRelay == Step(RelayInputs, MaxPrivInputs, NPrivConns, MaxPrivCloses)
SpecRelay == Init /\ [][NextRelay]_vars

\* Two clients that request the nickname "a", join CH1 and send messages to it.  Each
\* worker handles the messages it has been sent; nothing is assumed of the master,
\* which may stop handling messages at any time.
StallInputs == {NickReq("a"), JoinReq("CH1")} \cup {ChanMsg(b, "CH1") : b \in Bodies}
NextStall == Step(StallInputs, MaxPrivInputs, NPrivConns, MaxPrivCloses)
SpecStall ==
    /\ Init
    /\ [][NextStall]_vars
    /\ \A s \in Shards : WF_vars(onWorkerReceivedMsg(s))

\* Two clients that request the nickname "a" and send private and channel messages
\* in which they have set from to "b", a nickname nobody holds.
ForgedInputs ==
    {NickReq("a")}
    \cup {[PrivMsg(b, "a") EXCEPT !.from = "b"] : b \in Bodies}
    \cup {[ChanMsg(b, "CH1") EXCEPT !.from = "b"] : b \in Bodies}
NextForged == Step(ForgedInputs, MaxPrivInputs, NPrivConns, MaxPrivCloses)
SpecForged == Init /\ [][NextForged]_vars

\* The body the client of socket c gives a message it sends when k records have been
\* received in all: the clients number their messages.
Tag(c, k) == ToString(c) \o "." \o ToString(k)

\* One client on each worker; they request the nickname "a", join CH1 and send
\* numbered private messages to "a" and numbered channel messages to CH1.
OrderInputs(c, k) ==
    {NickReq("a"), JoinReq("CH1"), PrivMsg(Tag(c, k), "a"), ChanMsg(Tag(c, k), "CH1")}
NextOrder ==
    \/ \E c \in 1..nOfCPUs :
           \E data \in OrderInputs(c, nInputs) :
               nInputs < MaxOrderInputs /\ onSocketReceiveData(c, data)
    \/ \E c \in 1..nOfCPUs :
           Cardinality({d \in Conns : conn[d] # "open"}) < MaxPrivCloses
               /\ SocketDestroyed(c)
    \/ \E c \in Conns : onSocketClosed(c)
    \/ \E s \in Shards : onWorkerReceivedMsg(s)
    \/ \E s \in Shards : onMasterReceivedMsg(s)
    \/ \E s \in Shards : onWorkerExit(s)
SpecOrder == Init /\ [][NextOrder]_vars

\* Clients that request the nickname "a", join channels and send channel messages.
ChanInputs ==
    {NickReq("a")}
    \cup {JoinReq(ch) : ch \in Catalog \cup {BadChannel}}
    \cup {ChanMsg(b, ch) : b \in Bodies, ch \in Catalog \cup {BadChannel}}
NextChan == Step(ChanInputs, MaxChanInputs, NConns, NConns)
SpecChan == Init /\ [][NextChan]_vars

\* The same clients, sending fewer records and none for an unknown channel but
\* JOIN_CHANNEL.
JoinInputs == ChanInputs \ {ChanMsg(b, BadChannel) : b \in Bodies}
NextJoin == Step(JoinInputs, MaxJoinInputs, NConns, MaxJoinCloses)
SpecJoin == Init /\ [][NextJoin]_vars

\* =================================================================== claims
\* The names held by the reservation table.
ReservedNames(reserved) == {reserved[i].name : i \in 1..Len(reserved)}

\* The master handles the message at the head of worker s's channel in this step.
MasterStep(s) == Len(toMaster'[s]) < Len(toMaster[s])

\* Worker s handles the message at the head of its channel in this step and survives.
WorkerStep(s) ==
    /\ worker[s] = "up" /\ worker'[s] = "up"
    /\ toWorker[s] # <<>>
    /\ toWorker'[s] = Tail(toWorker[s])

\* The registry of c's worker binds socket c to nickname n.
Bound(c, n) ==
    \E i \in 1..Len(socketNicknames[shardOf(c)]) :
        socketNicknames[shardOf(c)][i] = [socket |-> c, nickname |-> n]

\* Socket c has been written the record r.
Written(c, r) == \E i \in 1..Len(written[c]) : written[c][i] = r

\* ---- C1
C1_Decision ==
    \A s \in Shards :
        (MasterStep(s) /\ Head(toMaster[s]).cmd = REQUEST_NICKNAME) =>
            LET n == Head(toMaster[s]).msg
                free == n \notin ReservedNames(reservedNicknames)
            IN  /\ free => reservedNicknames' =
                               Append(reservedNicknames, [owner |-> s, name |-> n])
                /\ ~free => reservedNicknames' = reservedNicknames
                /\ worker[s] = "up" =>
                       /\ Len(toWorker'[s]) = Len(toWorker[s]) + 1
                       /\ toWorker'[s][Len(toWorker'[s])].cmd = REQUEST_NICKNAME
                       /\ toWorker'[s][Len(toWorker'[s])].nickname = n
                       /\ toWorker'[s][Len(toWorker'[s])].success =
                              (IF free THEN "true" ELSE "false")

C1_NoDoubleReservation ==
    \A i, j \in 1..Len(reservedNicknames) :
        reservedNicknames[i].name = reservedNicknames[j].name => i = j

C2_UniqueBinding ==
    \A n \in Names :
        Cardinality({c \in Conns : conn[c] = "open" /\ Bound(c, n)}) <= 1

\* ---- C3
\* C3: once the master has handled the RELEASE_NICKNAME of name n, n is not in the
\* reservation table (so a following request for n is granted).
C3_ReleasedNameIsFree ==
    [][\A s \in Shards :
          (MasterStep(s) /\ Head(toMaster[s]).cmd = RELEASE_NICKNAME) =>
              Head(toMaster[s]).msg \notin ReservedNames(reservedNicknames')]_vars

\* ---- C4
\* C4: handling RELEASE_NICKNAME of a reserved name removes the entry of that name
\* and leaves every other entry, and their order, as they were.
C4_ReleaseRemovesOnlyThatName ==
    [][\A s \in Shards :
          (/\ MasterStep(s)
           /\ Head(toMaster[s]).cmd = RELEASE_NICKNAME
           /\ Head(toMaster[s]).msg \in ReservedNames(reservedNicknames)) =>
              reservedNicknames' =
                  SelectSeq(reservedNicknames,
                            LAMBDA e : e.name # Head(toMaster[s]).msg)]_vars

\* ---- C5
\* C5: handling RELEASE_NICKNAME of a name that is not reserved leaves the
\* reservation table unchanged (stated for the runs in which every worker is
\* running, so that the release is one a live worker sent).
C5_ReleaseOfAbsentNameIsNoOp ==
    [][\A s \in Shards :
          (/\ MasterStep(s)
           /\ \A w \in Shards : worker[w] = "up"
           /\ Head(toMaster[s]).cmd = RELEASE_NICKNAME
           /\ Head(toMaster[s]).msg \notin ReservedNames(reservedNicknames)) =>
              reservedNicknames' = reservedNicknames]_vars

\* ---- C6
\* The number of pairs of worker s's registry that bind socket c to nickname n.
Bindings(s, c, n) ==
    Cardinality({i \in 1..Len(socketNicknames[s]) :
                    socketNicknames[s][i] = [socket |-> c, nickname |-> n]})

\* A bound socket's PRIVATE_MESSAGE goes to the master with msg and to as received.
C6_Forwarded ==
    \A c \in Conns, b \in Bodies, to \in Names :
        LET data == PrivMsg(b, to) IN
        (/\ nInputs' = nInputs + 1
         /\ \E n \in Names : Bound(c, n)
         /\ onSocketReceiveData(c, data)) =>
            /\ Len(toMaster'[shardOf(c)]) = Len(toMaster[shardOf(c)]) + 1
            /\ LET sent == toMaster'[shardOf(c)][Len(toMaster'[shardOf(c)])]
               IN  /\ sent.cmd = PRIVATE_MESSAGE
                   /\ sent.msg = data.msg
                   /\ sent.to = data.to
                   /\ Bound(c, sent.from)

\* The master passes a PRIVATE_MESSAGE on, unchanged, to every running worker.
C6_Relayed ==
    \A s \in Shards :
        (MasterStep(s) /\ Head(toMaster[s]).cmd = PRIVATE_MESSAGE) =>
            \A w \in Shards :
                worker[w] = "up" => toWorker'[w] = Append(toWorker[w], Head(toMaster[s]))

\* A worker writes a relayed PRIVATE_MESSAGE, with success set and nothing else
\* changed, once per binding of obj.to in its registry, and to no other socket.
C6_Delivered ==
    \A s \in Shards :
        (WorkerStep(s) /\ Head(toWorker[s]).cmd = PRIVATE_MESSAGE) =>
            LET obj == Head(toWorker[s]) IN
            \A c \in Conns :
                written'[c] =
                    written[c] \o Copies(Bindings(s, c, obj.to),
                                         [obj EXCEPT !.success = "true"])

\* C6: a PRIVATE_MESSAGE of a socket bound to a nickname reaches the master with its
\* body and addressee unchanged, is relayed unchanged to every running worker, and
\* each worker writes it (body unchanged) to the sockets its registry binds to the
\* addressee b, on whichever worker they are, and to no socket that is not bound
\* to b.
C6_PrivateMessageToAddresseeOnly ==
    [][C6_Forwarded /\ C6_Relayed /\ C6_Delivered]_vars

\* A socket bound to "b" on one worker has been written the message a socket bound
\* to "a" on another worker sent to "b"; the third socket has been written nothing.
C6_Witness ==
    \E c, d \in Conns :
        /\ shardOf(c) # shardOf(d)
        /\ Bound(d, "a") /\ Bound(c, "b")
        /\ conn[c] = "open"
        /\ \E b \in Bodies :
               Written(c, [PrivMsg(b, "b") EXCEPT !.from = "a", !.success = "true"])
        /\ \A e \in Conns \ {c, d} : written[e] = <<>>

\* ---- C7
\* Socket c has been told that it joined channel ch.
Joined(c, ch) == Written(c, [JoinReq(ch) EXCEPT !.success = "true"])

\* C7: when a worker handles a relayed CHANNEL_MESSAGE of a catalog channel, it
\* writes the message once to each of its sockets that joined the channel and is
\* still open, and to none of its sockets that never joined it.
C7_ChannelMessageToEveryMember ==
    [][\A s \in Shards :
          (/\ WorkerStep(s)
           /\ Head(toWorker[s]).cmd = CHANNEL_MESSAGE
           /\ Head(toWorker[s]).channel \in Catalog) =>
              LET obj == Head(toWorker[s]) IN
              \A c \in Conns :
                  /\ (shardOf(c) = s /\ Joined(c, obj.channel) /\ conn[c] = "open") =>
                         written'[c] = Append(written[c], [obj EXCEPT !.success = "true"])
                  /\ ~Joined(c, obj.channel) => written'[c] = written[c]]_vars

\* ---- C8
\* C8: a JOIN_CHANNEL for a name outside the catalog is answered on the requesting
\* socket with the record and success=false, and no membership list of any worker
\* changes (nor is anything sent to the master).
C8_JoinUnknownChannelFails ==
    [][\A c \in Conns :
          onSocketReceiveData(c, JoinReq(BadChannel)) =>
              /\ written'[c] =
                     Append(written[c], [JoinReq(BadChannel) EXCEPT !.success = "false"])
              /\ \A d \in Conns \ {c} : written'[d] = written[d]
              /\ channelSubscriptions' = channelSubscriptions
              /\ toMaster' = toMaster]_vars

\* A socket that is a member of a channel has been refused an unknown channel.
C8_Witness ==
    \E c \in Conns, ch \in Catalog :
        /\ Written(c, [JoinReq(BadChannel) EXCEPT !.success = "false"])
        /\ \E i \in 1..Len(channelSubscriptions[shardOf(c)][ch]) :
               channelSubscriptions[shardOf(c)][ch][i] = c

\* ---- C9
\* Socket c is in a membership list of its worker.
Member(c, ch) ==
    \E i \in 1..Len(channelSubscriptions[shardOf(c)][ch]) :
        channelSubscriptions[shardOf(c)][ch][i] = c

C9_ClosedNotMember ==
    \A c \in Conns : conn[c] = "closed" => \A ch \in Catalog : ~Member(c, ch)

C9_NoChannelWrite ==
    \A c \in Conns :
        conn[c] = "closed" =>
            \A i \in (Len(written[c]) + 1)..Len(written'[c]) :
                written'[c][i].cmd # CHANNEL_MESSAGE

\* C9: a socket whose close event has been handled is in no membership list of its
\* worker, and no CHANNEL_MESSAGE is written to it from then on; also when other
\* sockets of the worker have closed and when it had joined several channels.
C9_ClosedSocketLeavesChannels == []C9_ClosedNotMember /\ [][C9_NoChannelWrite]_vars

\* Two sockets of one worker have closed, one of them after joining two channels.
C9_Witness ==
    \E c, d \in Conns, ch1, ch2 \in Catalog :
        /\ c # d /\ shardOf(c) = shardOf(d) /\ ch1 # ch2
        /\ conn[c] = "closed" /\ conn[d] = "closed"
        /\ Joined(c, ch1) /\ Joined(c, ch2)

\* ---- C10
\* C10: a well-formed PRIVATE_MESSAGE or CHANNEL_MESSAGE from a socket that has no
\* nickname in the registry is answered on that socket with the record and
\* success=false, and nothing is sent to the master; the socket stays open.
C10_UnboundSenderGetsFailure ==
    [][\A c \in Conns, data \in Inputs :
          (/\ validatePrivateMessage(data) \/ validateChannelMessage(data)
           /\ senderIndex(socketNicknames[shardOf(c)], c) = -1
           /\ onSocketReceiveData(c, data)) =>
              /\ written'[c] = Append(written[c], [data EXCEPT !.success = "false"])
              /\ toMaster' = toMaster
              /\ conn'[c] = "open"]_vars

\* ---- C11
\* Entry i of the reservation table is owned by worker s.
Owns(reserved, s) == {i \in 1..Len(reserved) : reserved[i].owner = s}

\* C11: when the master has handled the exit of worker s, reservedNicknames holds no
\* entry owned by s, whether s owned one entry or several and wherever they stood.
C11_ExitReleasesOwnedNames ==
    [][\A s \in Shards : onWorkerExit(s) => Owns(reservedNicknames', s) = {}]_vars

\* Worker s has exited after two different names were granted to its sockets, and no
\* socket's close was handled (so nothing was released before the exit): s owned
\* both entries when its exit was handled, and owns none now.
C11_Witness ==
    \E s \in Shards :
        /\ worker[s] = "exited"
        /\ \A n \in Names :
               \E c \in Conns :
                   /\ shardOf(c) = s
                   /\ \E i \in 1..Len(written[c]) :
                          /\ written[c][i].cmd = REQUEST_NICKNAME
                          /\ written[c][i].nickname = n
                          /\ written[c][i].success = "true"
        /\ \A c \in Conns : conn[c] # "closed"
        /\ Owns(reservedNicknames, s) = {}

\* ---- C12
\* C12: no socket is bound, in its worker's socketNicknames, to more than one
\* nickname.
C12_OneNicknamePerSocket ==
    \A c \in Conns : Cardinality({n \in Names : Bound(c, n)}) <= 1

\* ---- C13
\* C13: no worker's pendingNicknameRequests holds two entries of the same socket.
C13_OnePendingPerSocket ==
    \A s \in Shards :
        \A i, j \in 1..Len(pendingNicknameRequests[s]) :
            pendingNicknameRequests[s][i].socket = pendingNicknameRequests[s][j].socket
                => i = j

\* ---- C14
\* The sequence arr without its element at position i.
Without(arr, i) == SubSeq(arr, 1, i - 1) \o SubSeq(arr, i + 1, Len(arr))

\* C14: when a worker handles a nickname decision, the decision is written once, to
\* the socket of a pending entry of that nickname, and that entry alone leaves the
\* worker's pendingNicknameRequests (stated for the states in which every pending
\* entry of the worker is of a different socket).
C14_DecisionResolvesOneRequest ==
    [][\A s \in Shards :
          (/\ onWorkerReceivedMsg(s)
           /\ Head(toWorker[s]).cmd = REQUEST_NICKNAME
           /\ C13_OnePendingPerSocket) =>
              LET obj == Head(toWorker[s])
                  pending == pendingNicknameRequests[s]
              IN  \E i \in 1..Len(pending) :
                      /\ pending[i].nickname = obj.nickname
                      /\ written' = [written EXCEPT ![pending[i].socket] = Append(@, obj)]
                      /\ pendingNicknameRequests'[s] = Without(pending, i)]_vars

\* ---- C15
\* C15: when the close of socket c is handled, every other open socket of c's worker
\* keeps its nickname bindings and its channel memberships, and what the worker
\* sends to the master is at most one RELEASE_NICKNAME, of a nickname bound to c
\* (stated for the closes handled while every other socket is open).
C15_CloseTouchesOnlyThatSocket ==
    [][\A c \in Conns :
          (onSocketClosed(c) /\ \A d \in Conns \ {c} : conn[d] = "open") =>
              LET s == shardOf(c) IN
              /\ \A d \in Conns \ {c} :
                     (shardOf(d) = s /\ conn[d] = "open") =>
                         /\ \A n \in Names : Bound(d, n) <=> Bound(d, n)'
                         /\ \A ch \in Catalog : Member(d, ch) <=> Member(d, ch)'
              /\ \/ toMaster' = toMaster
                 \/ \E n \in Names :
                        /\ Bound(c, n)
                        /\ toMaster' = Send(toMaster, s,
                               Record(RELEASE_NICKNAME, n, Undef, Undef, Undef, Undef,
                                      Undef))]_vars

\* ---- C16
\* The input is no valid request: it does not parse, or no validator accepts it.
Invalid(data, c) ==
    \/ ~Parses(data)
    \/ /\ ~validateNicknameRequest(data)
       /\ ~validateJoinChannelRequest(data, c, channelSubscriptions[shardOf(c)])
       /\ ~validatePrivateMessage(data)
       /\ ~validateChannelMessage(data)

\* C16: an input that is no valid request is answered on the sending socket with one
\* record of success=false, and the socket stays open.
C16_InvalidInputGetsFailure ==
    [][\A c \in Conns, data \in BadInputs :
          (Invalid(data, c) /\ onSocketReceiveData(c, data)) =>
              /\ Len(written'[c]) = Len(written[c]) + 1
              /\ written'[c][Len(written'[c])].success = "false"
              /\ conn'[c] = "open"]_vars

\* ---- C17
\* C17: a CHANNEL_MESSAGE for a channel outside the catalog, sent by a socket that
\* has a nickname, is answered on that socket with the record and success=false,
\* and nothing is sent to the master.
C17_UnknownChannelMessageFails ==
    [][\A c \in Conns, b \in Bodies :
          (/\ senderIndex(socketNicknames[shardOf(c)], c) # -1
           /\ onSocketReceiveData(c, ChanMsg(b, BadChannel))) =>
              /\ written'[c] =
                     Append(written[c], [ChanMsg(b, BadChannel) EXCEPT !.success = "false"])
              /\ toMaster' = toMaster]_vars

\* ---- C18
\* C18: when the master handles a PRIVATE_MESSAGE or a CHANNEL_MESSAGE, it appends
\* that record, unchanged, to the channel of every running worker, the worker it
\* came from included, sends nothing else, and leaves reservedNicknames as it was.
C18_RelayToEveryWorker ==
    [][\A s \in Shards :
          (/\ MasterStep(s)
           /\ Head(toMaster[s]).cmd \in {PRIVATE_MESSAGE, CHANNEL_MESSAGE}) =>
              /\ \A w \in Shards :
                     toWorker'[w] =
                         IF worker[w] = "up"
                         THEN Append(toWorker[w], Head(toMaster[s]))
                         ELSE toWorker[w]
              /\ reservedNicknames' = reservedNicknames]_vars

\* Both workers hold, undelivered, a private message and a channel message that a
\* socket bound to "a" sent, and the table still reserves "a".
C18_Witness ==
    /\ ReservedNames(reservedNicknames) = {"a"}
    /\ \A w \in Shards :
           \E i, j \in 1..Len(toWorker[w]) :
               /\ toWorker[w][i].cmd = PRIVATE_MESSAGE /\ toWorker[w][i].from = "a"
               /\ toWorker[w][j].cmd = CHANNEL_MESSAGE /\ toWorker[w][j].from = "a"

\* ---- C19
\* No membership list of any worker holds a socket twice.
C19_NoDuplicateMember ==
    \A s \in Shards, ch \in Catalog :
        \A i, j \in 1..Len(channelSubscriptions[s][ch]) :
            channelSubscriptions[s][ch][i] = channelSubscriptions[s][ch][j] => i = j

\* A JOIN_CHANNEL of a socket that is in the channel's list is answered with the
\* record and success=false and changes no list.
C19_RejoinFails ==
    \A c \in Conns, ch \in Catalog :
        (/\ nInputs' = nInputs + 1
         /\ Member(c, ch)
         /\ onSocketReceiveData(c, JoinReq(ch))) =>
            /\ written'[c] = Append(written[c], [JoinReq(ch) EXCEPT !.success = "false"])
            /\ channelSubscriptions' = channelSubscriptions

\* C19: a socket is at most once in any membership list, and a JOIN_CHANNEL from a
\* socket that is already in the channel's list fails and adds no entry.
C19_MemberAtMostOnce == []C19_NoDuplicateMember /\ [][C19_RejoinFails]_vars

\* A member of a channel asked to join it again and was refused; it is still in the
\* list.
C19_Witness ==
    \E c \in Conns, ch \in Catalog :
        /\ Member(c, ch)
        /\ Joined(c, ch)
        /\ Written(c, [JoinReq(ch) EXCEPT !.success = "false"])

\* ---- C20
\* Worker s has forwarded a CHANNEL_MESSAGE of channel ch that the master has not
\* handled.
Forwarded(s, ch) ==
    \E i \in 1..Len(toMaster[s]) :
        toMaster[s][i].cmd = CHANNEL_MESSAGE /\ toMaster[s][i].channel = ch

\* Socket d has been written a CHANNEL_MESSAGE of channel ch.
Delivered(d, ch) ==
    \E i \in 1..Len(written[d]) :
        written[d][i].cmd = CHANNEL_MESSAGE /\ written[d][i].channel = ch

\* C20: with the workers running and whatever the master does, a CHANNEL_MESSAGE
\* that a bound socket's worker has forwarded is eventually written to every socket
\* of that worker that is a member of the channel (unless the member closes or
\* leaves the list first).
C20_LocalDeliveryWithoutMaster ==
    \A d \in Conns, ch \in Catalog :
        []((Forwarded(shardOf(d), ch) /\ Member(d, ch) /\ conn[d] = "open")
              => <>(Delivered(d, ch) \/ conn[d] # "open" \/ ~Member(d, ch)))

\* ---- C21
\* The record is a PRIVATE_MESSAGE or a CHANNEL_MESSAGE.
IsMessage(r) == r.cmd \in {PRIVATE_MESSAGE, CHANNEL_MESSAGE}

\* What a worker forwards for a client's message is the client's record with from
\* replaced by a nickname its registry binds to the sending socket.
C21_Stamped ==
    \A c \in Conns, data \in ForgedInputs :
        (/\ nInputs' = nInputs + 1
         /\ IsMessage(data)
         /\ onSocketReceiveData(c, data)
         /\ toMaster' # toMaster) =>
            LET sent == toMaster'[shardOf(c)][Len(toMaster'[shardOf(c)])]
            IN  /\ toMaster' = Send(toMaster, shardOf(c), sent)
                /\ Bound(c, sent.from)
                /\ sent = [data EXCEPT !.from = sent.from]

\* No message on its way or written carries the from the clients supplied: "a" is
\* the only nickname a socket can hold here.
C21_NoForgedFrom ==
    /\ \A s \in Shards :
           /\ \A i \in 1..Len(toMaster[s]) :
                  IsMessage(toMaster[s][i]) => toMaster[s][i].from = "a"
           /\ \A i \in 1..Len(toWorker[s]) :
                  IsMessage(toWorker[s][i]) => toWorker[s][i].from = "a"
    /\ \A c \in Conns :
           \A i \in 1..Len(written[c]) :
               IsMessage(written[c][i]) => written[c][i].from = "a"

\* C21: every PRIVATE_MESSAGE or CHANNEL_MESSAGE a worker forwards carries in from a
\* nickname bound to the sending socket at that moment, whatever from the client
\* put in the record; so does every message relayed and written.
C21_FromIsSendersNickname == []C21_NoForgedFrom /\ [][C21_Stamped]_vars

\* A socket has been written a private message that its sender, bound to "a", sent
\* with from set to "b".
C21_Witness ==
    \E c \in Conns, b \in Bodies :
        Written(c, [PrivMsg(b, "a") EXCEPT !.from = "a", !.success = "true"])

\* ---- C22
\* C22: no worker process is ended by an uncaught error of one of its handlers.
C22_NoWorkerCrash == \A s \in Shards : worker[s] = "up"

\* ---- C23
\* The entries of the reservation table that worker s does not own, in order.
OthersEntries(reserved, s) == SelectSeq(reserved, LAMBDA e : e.owner # s)

\* C23: when the master handles the exit of worker s, the entries owned by the other
\* workers stay in reservedNicknames, unchanged and in order.
C23_ExitKeepsOthersNames ==
    [][\A s \in Shards :
          onWorkerExit(s) =>
              OthersEntries(reservedNicknames', s) = OthersEntries(reservedNicknames, s)]_vars

\* ---- C24
\* C24: every nickname that the registry of a running worker binds to a socket is
\* in reservedNicknames with that worker as owner.
C24_BoundNameIsReserved ==
    \A s \in Shards :
        worker[s] = "up" =>
            \A i \in 1..Len(socketNicknames[s]) :
                \E j \in 1..Len(reservedNicknames) :
                    reservedNicknames[j] =
                        [owner |-> s, name |-> socketNicknames[s][i].nickname]

\* ---- C25
\* C25: a socket whose close has been handled is in no pair of its worker's
\* socketNicknames (so no nickname stays reserved for it).
C25_ClosedSocketNotBound ==
    \A c \in Conns : conn[c] = "closed" => \A n \in Names : ~Bound(c, n)

\* ---- C26
\* The socket whose client sent the message of body m, and the message's number.
Tags == {<<c, k, Tag(c, k)>> : c \in Conns, k \in 0..MaxOrderInputs}
SenderOf(m) == (CHOOSE e \in Tags : e[3] = m)[1]
SeqOf(m) == (CHOOSE e \in Tags : e[3] = m)[2]

\* Records r and q are messages of one sender to one addressee or one channel.
SameStream(r, q) ==
    /\ IsMessage(r) /\ r.cmd = q.cmd
    /\ r.to = q.to /\ r.channel = q.channel
    /\ SenderOf(r.msg) = SenderOf(q.msg)

\* C26: the messages one socket sent to one addressee, or to one channel, are
\* written to every socket that receives them in the order they were sent.
C26_DeliveredInSendOrder ==
    \A d \in Conns :
        \A i, j \in 1..Len(written[d]) :
            (i < j /\ SameStream(written[d][i], written[d][j])) =>
                SeqOf(written[d][i].msg) <= SeqOf(written[d][j].msg)

\* A socket has been written two channel messages that one socket sent one after
\* the other.
C26_Witness ==
    \E d \in Conns :
        \E i, j \in 1..Len(written[d]) :
            /\ i < j
            /\ written[d][i].cmd = CHANNEL_MESSAGE
            /\ SameStream(written[d][i], written[d][j])
            /\ SeqOf(written[d][i].msg) < SeqOf(written[d][j].msg)

====
